---- MODULE Spec2Model ----
(***************************************************************************)
(* Model of sic_framework/core/component_manager_python2.py:               *)
(* SICComponentManager and SICSensorManager of one process.                *)
(*                                                                         *)
(* The process holds two manager objects.  Each request delivered by the   *)
(* bus is one call of _handle_request; the call is split at the points     *)
(* where it reads or writes state shared with other calls and with         *)
(* serve()/shutdown(), so that interleavings of the handlers are visible.  *)
(* Message objects and component objects live in two heaps and are named   *)
(* by their index, so that object identity (aliasing versus copy.copy) is  *)
(* part of the state.                                                      *)
(***************************************************************************)
EXTENDS Naturals, Sequences, FiniteSets

\* ------------------------------------------------------------ bounds
\* Number of requests the bus delivers in one run.
MaxRequests == 3

\* Number of calls of one manager's handler that a concurrent bus runs at a time.
MaxConcurrent == 2

\* ------------------------------------------------------------ universe
Managers == {"m1", "m2"}
ManagerClasses == {"SICComponentManager", "SICSensorManager"}
ComponentNames == {"echo", "motor"}
Registries == {{"echo", "motor"}, {"echo"}}
Addresses == {"10.0.0.5", "10.0.0.6"}

NoChannel == <<>>
NoCause == "none"

\* ------------------------------------------------------------ state
VARIABLES
    manager_class,       \* the class of each manager object
    ip,                  \* utils.get_ip_adress() of the process
    component_classes,   \* self.component_classes (its keys)
    active_components,   \* self.active_components: list of component ids
    stop_event,          \* self.stop_event of each manager
    ready_event,         \* self.ready_event of each manager
    redis_open,          \* self.redis is connected (handler registered)
    started_components,  \* SICSensorManager.started_components (class attribute)
    messages,            \* heap of reply objects: object id -> attributes
    components,          \* heap of component objects: object id -> attributes
    calls,               \* the calls of _handle_request, in delivery order
    serve_pc,            \* where each manager's main thread is
    shutdown_idx         \* position of shutdown()'s for loop

vars == <<manager_class, ip, component_classes, active_components, stop_event,
          ready_event, redis_open, started_components, messages, components,
          calls, serve_pc, shutdown_idx>>

config == <<manager_class, ip, component_classes>>

\* ------------------------------------------------------------ messages
SICSuccessMessage ==
    [type |-> "SICSuccessMessage", output_channel |-> NoChannel,
     component_is_singleton |-> FALSE, message |-> NoCause, request_id |-> 0]

SICIgnoreRequestMessage ==
    [type |-> "SICIgnoreRequestMessage", output_channel |-> NoChannel,
     component_is_singleton |-> FALSE, message |-> NoCause, request_id |-> 0]

\* component_is_singleton is the class attribute False until an instance
\* attribute shadows it.
SICStartedComponentInformation(output_channel) ==
    [type |-> "SICStartedComponentInformation", output_channel |-> output_channel,
     component_is_singleton |-> FALSE, message |-> NoCause, request_id |-> 0]

SICNotStartedMessage(message) ==
    [type |-> "SICNotStartedMessage", output_channel |-> NoChannel,
     component_is_singleton |-> FALSE, message |-> message, request_id |-> 0]

\* component_class.get_output_channel(self.ip)
get_output_channel(name, address) == <<name, address>>

\* ------------------------------------------------------------ requests
SICStopRequest == [type |-> "SICStopRequest", component_name |-> "none"]

SICStartComponentRequest(component_name) ==
    [type |-> "SICStartComponentRequest", component_name |-> component_name]

Requests == {SICStopRequest} \cup {SICStartComponentRequest(n) : n \in ComponentNames}

\* A call that has ended: it returned a reply, or an exception left it.
Ended(c) == c.pc \in {"returned", "replied", "raised"}

NewCall(m, request) ==
    [manager |-> m, request |-> request, pc |-> "handle",
     output_channel |-> NoChannel, component |-> 0, reply |-> 0,
     cause |-> NoCause, reused |-> FALSE, ready |-> FALSE,
     before |-> active_components[m], after |-> <<>>]

\* ------------------------------------------------------------ Init
\* The state of each manager object of the process when __init__ has executed
\* line 72: the handler is registered with the bus, which calls it from its
\* own thread, and ready_event (line 66) is not set yet.  Every manager of a
\* process has the address of the process.
HandlerRegistered(managers) ==
    /\ manager_class \in [managers -> ManagerClasses]
    /\ ip \in Addresses
    /\ component_classes \in [managers -> Registries]
    /\ active_components = [m \in managers |-> <<>>]
    /\ stop_event = [m \in managers |-> FALSE]
    /\ ready_event = [m \in managers |-> FALSE]
    /\ redis_open = [m \in managers |-> TRUE]
    /\ started_components = [n \in {} |-> 0]
    /\ messages = [id \in {} |-> SICSuccessMessage]
    /\ components = [id \in {} |-> 0]
    /\ calls = <<>>
    /\ serve_pc = [m \in managers |-> "init"]
    /\ shutdown_idx = [m \in managers |-> 0]

\* One manager in the process.
Process == {"m1"}
Init == HandlerRegistered(Process)

\* Two sensor managers in one process, constructed with the same list of
\* component classes: echo.
InitTwoSensorManagers ==
    /\ HandlerRegistered(Managers)
    /\ \A m \in Managers : manager_class[m] = "SICSensorManager"
    /\ \A m \in Managers : component_classes[m] = {"echo"}

\* ------------------------------------------------------------ helpers
IsSensorManager(m) == manager_class[m] = "SICSensorManager"

\* The heap `heap` with the object `id` holding `obj`.
Put(heap, id, obj) ==
    [x \in DOMAIN heap \cup {id} |-> IF x = id THEN obj ELSE heap[x]]

\* Object ids: call i creates at most one reply object, one copy of a reply
\* and one component.
ReplyId(i) == 2 * i - 1
CopyId(i) == 2 * i
ComponentId(i) == i

\* The reply object `id` is handed to the bus by _handle_request.
HandlerReturns(c, id, active) ==
    [c EXCEPT !.pc = "returned", !.reply = id, !.after = active]

\* SICComponentManager.start_component returns the object `id`: to
\* _handle_request on a plain manager, to SICSensorManager.start_component
\* (line 216) on a sensor manager.
BaseReturns(c, id, active) ==
    IF IsSensorManager(c.manager)
    THEN [c EXCEPT !.pc = "sensor_store", !.reply = id]
    ELSE HandlerReturns(c, id, active)

\* What a raised exception is an instance of: a subclass of Exception, or of
\* BaseException only (SystemExit, KeyboardInterrupt, GeneratorExit).
ExceptionClasses == {"Exception", "BaseException"}

\* except Exception as e: return SICNotStartedMessage(e).  The clause matches
\* instances of Exception; any other exception leaves start_component and
\* _handle_request.
StartFailed(i, cause, exception) ==
    IF exception = "Exception"
    THEN /\ messages' = Put(messages, ReplyId(i), SICNotStartedMessage(cause))
         /\ calls' = [calls EXCEPT ![i] =
                         BaseReturns([@ EXCEPT !.cause = cause], ReplyId(i),
                                     active_components[@.manager])]
    ELSE /\ calls' = [calls EXCEPT ![i] =
                         [@ EXCEPT !.pc = "raised", !.cause = cause,
                                   !.after = active_components[calls[i].manager]]]
         /\ UNCHANGED messages

\* component_class(output_channel=..., stop_event=..., ready_event=..., ...)
NewComponent(name, m, output_channel, started) ==
    [name |-> name, manager |-> m, output_channel |-> output_channel,
     stop_event |-> FALSE, ready_event |-> FALSE, thread_started |-> started]

\* Mutant of copy_copy: the object itself is returned.
same_object(heap, id, new) == [heap |-> heap, id |-> id]

\* copy.copy(reply): a new object `new` with the attribute values of `id`.
\* The result is the heap after the call and the object returned.
copy_copy(heap, id, new) == [heap |-> Put(heap, new, heap[id]), id |-> new]

\* component_class.get_component_name() not in self.started_components
not_in_started_components(name) == name \notin DOMAIN started_components

\* ------------------------------------------------------------ _handle_request
\* Mutant of HandleStop: the handler itself signals the active components.
HandleStopSignalsComponents(i) ==
    LET c == calls[i]
        active == active_components[c.manager] IN
    /\ c.pc = "handle"
    /\ c.request.type = "SICStopRequest"
    /\ stop_event' = [stop_event EXCEPT ![c.manager] = TRUE]
    /\ components' = [id \in DOMAIN components |->
                         IF \E k \in DOMAIN active : active[k] = id
                         THEN [components[id] EXCEPT !.stop_event = TRUE]
                         ELSE components[id]]
    /\ messages' = Put(messages, ReplyId(i), SICSuccessMessage)
    /\ calls' = [calls EXCEPT ![i] = HandlerReturns(@, ReplyId(i), active)]
    /\ UNCHANGED <<config, active_components, ready_event, redis_open,
                   started_components, serve_pc, shutdown_idx>>

\* Lines 118-121: isinstance_pickle(request, SICStopRequest).
HandleStop(i) ==
    LET c == calls[i] IN
    /\ c.pc = "handle"
    /\ c.request.type = "SICStopRequest"
    /\ stop_event' = [stop_event EXCEPT ![c.manager] = TRUE]
    /\ messages' = Put(messages, ReplyId(i), SICSuccessMessage)
    /\ calls' = [calls EXCEPT ![i] = HandlerReturns(@, ReplyId(i),
                                                    active_components[c.manager])]
    /\ UNCHANGED <<config, active_components, ready_event, redis_open,
                   started_components, components, serve_pc, shutdown_idx>>

\* Lines 124-127: request.component_name in self.component_classes, and the
\* call of self.start_component up to its first access to shared state.  On a
\* sensor manager that is the test of line 213, and with the name in the
\* cache lines 220-225 return a copy of the cached reply.
HandleStart(i) ==
    LET c == calls[i]
        name == c.request.component_name
        r == copy_copy(messages, started_components[name], CopyId(i)) IN
    /\ c.pc = "handle"
    /\ c.request.type = "SICStartComponentRequest"
    /\ name \in component_classes[c.manager]
    /\ IF IsSensorManager(c.manager) /\ ~not_in_started_components(name)
       THEN /\ messages' = r.heap
            /\ calls' = [calls EXCEPT ![i] =
                            HandlerReturns([@ EXCEPT !.reused = TRUE], r.id,
                                           active_components[c.manager])]
       ELSE /\ calls' = [calls EXCEPT ![i].pc = "launch"]
            /\ UNCHANGED messages
    /\ UNCHANGED <<config, active_components, stop_event, ready_event, redis_open,
                   started_components, components, serve_pc, shutdown_idx>>

\* Mutant of HandleIgnore: the registry test is missing and the request is
\* started like a registered one.
HandleIgnoreStarts(i) ==
    LET c == calls[i] IN
    /\ c.pc = "handle"
    /\ c.request.type = "SICStartComponentRequest"
    /\ c.request.component_name \notin component_classes[c.manager]
    /\ calls' = [calls EXCEPT ![i].pc = "launch"]
    /\ UNCHANGED <<config, active_components, stop_event, ready_event, redis_open,
                   started_components, messages, components, serve_pc, shutdown_idx>>

\* Lines 128-130: return SICIgnoreRequestMessage().
HandleIgnore(i) ==
    LET c == calls[i] IN
    /\ c.pc = "handle"
    /\ c.request.type = "SICStartComponentRequest"
    /\ c.request.component_name \notin component_classes[c.manager]
    /\ messages' = Put(messages, ReplyId(i), SICIgnoreRequestMessage)
    /\ calls' = [calls EXCEPT ![i] = HandlerReturns(@, ReplyId(i),
                                                    active_components[c.manager])]
    /\ UNCHANGED <<config, active_components, stop_event, ready_event, redis_open,
                   started_components, components, serve_pc, shutdown_idx>>

\* ------------------------------------------------------------ SICComponentManager.start_component
LaunchOutcomes == {"ok", "get_output_channel_raises", "constructor_raises",
                   "thread_start_raises"}
ReadyOutcomes == {"ready", "timeout", "raises"}

\* Lines 152-167.  Lines 152-154 are outside the try block: an exception of
\* get_output_channel leaves start_component and _handle_request.  Inside it
\* the constructor or lines 165-167 (component._start, thread.start()) may
\* raise an exception of any class.
Launch(i) ==
    LET c == calls[i]
        name == c.request.component_name
        output_channel == get_output_channel(name, ip) IN
    /\ c.pc = "launch"
    /\ \E outcome \in LaunchOutcomes :
          CASE outcome = "get_output_channel_raises" ->
                  /\ calls' = [calls EXCEPT ![i] =
                                 [@ EXCEPT !.pc = "raised",
                                           !.cause = "output_channel_error",
                                           !.after = active_components[c.manager]]]
                  /\ UNCHANGED <<components, messages>>
            [] outcome = "constructor_raises" ->
                  /\ \E exception \in ExceptionClasses :
                        StartFailed(i, "constructor_error", exception)
                  /\ UNCHANGED components
            [] outcome = "thread_start_raises" ->
                  /\ components' = Put(components, ComponentId(i),
                        NewComponent(name, c.manager, output_channel, FALSE))
                  /\ \E exception \in ExceptionClasses :
                        StartFailed(i, "thread_error", exception)
            [] OTHER ->
                  /\ components' = Put(components, ComponentId(i),
                        NewComponent(name, c.manager, output_channel, TRUE))
                  /\ calls' = [calls EXCEPT ![i] =
                                 [@ EXCEPT !.pc = "wait",
                                           !.output_channel = output_channel,
                                           !.component = ComponentId(i)]]
                  /\ UNCHANGED messages
    /\ UNCHANGED <<config, active_components, stop_event, ready_event, redis_open,
                   started_components, serve_pc, shutdown_idx>>

\* Mutant of Register: a component that is not ready in time is rolled back
\* (its stop signal set, nothing appended) and the start is reported failed.
RegisterOnlyWhenReady(i, ready) ==
    LET c == calls[i]
        active == Append(active_components[c.manager], c.component) IN
    IF ready
    THEN /\ active_components' = [active_components EXCEPT ![c.manager] = active]
         /\ components' = [components EXCEPT ![c.component].ready_event = ready]
         /\ messages' = Put(messages, ReplyId(i),
                            SICStartedComponentInformation(c.output_channel))
         /\ calls' = [calls EXCEPT ![i] =
                         BaseReturns([@ EXCEPT !.ready = ready], ReplyId(i), active)]
    ELSE /\ components' = [components EXCEPT ![c.component].stop_event = TRUE]
         /\ messages' = Put(messages, ReplyId(i), SICNotStartedMessage("timeout"))
         /\ calls' = [calls EXCEPT ![i] =
                         BaseReturns(@, ReplyId(i), active_components[c.manager])]
         /\ UNCHANGED active_components

\* Mutant of Register: the channel of the reply is numbered with the position
\* of the component in the active list.
RegisterNumbersChannel(i, ready) ==
    LET c == calls[i]
        active == Append(active_components[c.manager], c.component) IN
    /\ active_components' = [active_components EXCEPT ![c.manager] = active]
    /\ components' = [components EXCEPT ![c.component].ready_event = ready]
    /\ messages' = Put(messages, ReplyId(i),
                       SICStartedComponentInformation(
                           Append(c.output_channel, Len(active))))
    /\ calls' = [calls EXCEPT ![i] =
                    BaseReturns([@ EXCEPT !.ready = ready], ReplyId(i), active)]

\* Mutant of Register: the component is inserted at the head of the list.
RegisterAtFront(i, ready) ==
    LET c == calls[i]
        active == <<c.component>> \o active_components[c.manager] IN
    /\ active_components' = [active_components EXCEPT ![c.manager] = active]
    /\ components' = [components EXCEPT ![c.component].ready_event = ready]
    /\ messages' = Put(messages, ReplyId(i),
                       SICStartedComponentInformation(c.output_channel))
    /\ calls' = [calls EXCEPT ![i] =
                    BaseReturns([@ EXCEPT !.ready = ready], ReplyId(i), active)]

\* Mutant of Register: a read-modify-write of the list, with the list read
\* when the call began.
RegisterFromSnapshot(i, ready) ==
    LET c == calls[i]
        active == Append(c.before, c.component) IN
    /\ active_components' = [active_components EXCEPT ![c.manager] = active]
    /\ components' = [components EXCEPT ![c.component].ready_event = ready]
    /\ messages' = Put(messages, ReplyId(i),
                       SICStartedComponentInformation(c.output_channel))
    /\ calls' = [calls EXCEPT ![i] =
                    BaseReturns([@ EXCEPT !.ready = ready], ReplyId(i), active)]

\* Lines 179-184: self.active_components.append(component) and the reply.
Register(i, ready) ==
    LET c == calls[i]
        active == Append(active_components[c.manager], c.component) IN
    /\ active_components' = [active_components EXCEPT ![c.manager] = active]
    /\ components' = [components EXCEPT ![c.component].ready_event = ready]
    /\ messages' = Put(messages, ReplyId(i),
                       SICStartedComponentInformation(c.output_channel))
    /\ calls' = [calls EXCEPT ![i] =
                    BaseReturns([@ EXCEPT !.ready = ready], ReplyId(i), active)]

\* Lines 170-184: component._ready_event.wait(COMPONENT_STARTUP_TIMEOUT) ends.
\* The component has set the event in time, or the wait has timed out and the
\* error is logged, or the statement of line 170 raises (still inside the try
\* block): the AttributeError of a component object without _ready_event or
\* COMPONENT_STARTUP_TIMEOUT, or what the component's attributes raise.
WaitReady(i) ==
    LET c == calls[i] IN
    /\ c.pc = "wait"
    /\ \E outcome \in ReadyOutcomes :
          CASE outcome = "ready" -> Register(i, TRUE)
            [] outcome = "timeout" -> Register(i, FALSE)
            [] OTHER ->
                  /\ \E exception \in ExceptionClasses :
                        StartFailed(i, "wait_error", exception)
                  /\ UNCHANGED <<components, active_components>>
    /\ UNCHANGED <<config, stop_event, ready_event, redis_open,
                   started_components, serve_pc, shutdown_idx>>

\* ------------------------------------------------------------ SICSensorManager.start_component
\* Mutant of SensorStore: the cache keeps the latest class only.
SensorStoreEvicts(i) ==
    LET c == calls[i]
        name == c.request.component_name
        marked == [messages EXCEPT ![c.reply].component_is_singleton = TRUE]
        r == copy_copy(marked, c.reply, CopyId(i)) IN
    /\ c.pc = "sensor_store"
    /\ started_components' = [n \in {name} |-> c.reply]
    /\ messages' = r.heap
    /\ calls' = [calls EXCEPT ![i] = HandlerReturns(@, r.id,
                                                    active_components[c.manager])]
    /\ UNCHANGED <<config, active_components, stop_event, ready_event, redis_open,
                   components, serve_pc, shutdown_idx>>

\* Lines 217-225: reply.component_is_singleton = True, the cache entry, and the
\* copy that is returned.  The dict is the class attribute: one dict for every
\* sensor manager of the process.
SensorStore(i) ==
    LET c == calls[i]
        name == c.request.component_name
        marked == [messages EXCEPT ![c.reply].component_is_singleton = TRUE]
        r == copy_copy(marked, c.reply, CopyId(i)) IN
    /\ c.pc = "sensor_store"
    /\ started_components' = Put(started_components, name, c.reply)
    /\ messages' = r.heap
    /\ calls' = [calls EXCEPT ![i] = HandlerReturns(@, r.id,
                                                    active_components[c.manager])]
    /\ UNCHANGED <<config, active_components, stop_event, ready_event, redis_open,
                   components, serve_pc, shutdown_idx>>

\* ------------------------------------------------------------ the bus
\* The bus stamps the returned reply with the request's id and sends it
\* (the comment of line 224: the reply object carries _request_id).
SendReply(i) ==
    LET c == calls[i] IN
    /\ c.pc = "returned"
    /\ messages' = [messages EXCEPT ![c.reply].request_id = i]
    /\ calls' = [calls EXCEPT ![i].pc = "replied"]
    /\ UNCHANGED <<config, active_components, stop_event, ready_event, redis_open,
                   started_components, components, serve_pc, shutdown_idx>>

\* The bus calls the handler registered in line 72.
Deliver(m, request) ==
    /\ Len(calls) < MaxRequests
    /\ redis_open[m]
    /\ calls' = Append(calls, NewCall(m, request))
    /\ UNCHANGED <<config, active_components, stop_event, ready_event, redis_open,
                   started_components, messages, components, serve_pc, shutdown_idx>>

\* A serializing bus calls a manager's handler again only when the previous
\* call is over: its reply is sent, or an exception left it.
Idle(m) ==
    \A i \in DOMAIN calls :
        calls[i].manager = m => calls[i].pc \in {"replied", "raised"}

DeliverSerial(m, request) == Idle(m) /\ Deliver(m, request)

\* The calls of manager m's handler that are running.
Running(m) ==
    {i \in DOMAIN calls :
        calls[i].manager = m /\ calls[i].pc \notin {"replied", "raised"}}

DeliverConcurrent(m, request) ==
    /\ Cardinality(Running(m)) < MaxConcurrent
    /\ Deliver(m, request)

\* ------------------------------------------------------------ serve and shutdown
\* Lines 74-81: __init__ prints the component list and ends with
\* self.ready_event.set().
InitReady(m) ==
    /\ serve_pc[m] = "init"
    /\ ready_event' = [ready_event EXCEPT ![m] = TRUE]
    /\ serve_pc' = [serve_pc EXCEPT ![m] = "constructed"]
    /\ UNCHANGED <<config, active_components, stop_event, redis_open,
                   started_components, messages, components, calls, shutdown_idx>>

\* serve() is entered.
ServeEnter(m) ==
    /\ serve_pc[m] = "constructed"
    /\ serve_pc' = [serve_pc EXCEPT ![m] = "loop"]
    /\ UNCHANGED <<config, active_components, stop_event, ready_event, redis_open,
                   started_components, messages, components, calls, shutdown_idx>>

\* self.stop_event.wait(timeout=.1) returns, or the main thread is interrupted
\* in it (ctrl-c, the comment of line 87): no signal handler is installed and
\* serve() has no try block.
ServeOutcomes == {"returns", "KeyboardInterrupt"}

\* Lines 88-92: an iteration that finds the stop signal set leaves the loop and
\* enters shutdown(); one that does not changes nothing.  A KeyboardInterrupt
\* raised in the wait of line 89 leaves serve() without shutdown().
ServeLoop(m) ==
    /\ serve_pc[m] = "loop"
    /\ \E outcome \in ServeOutcomes :
          IF outcome = "returns"
          THEN /\ stop_event[m]
               /\ serve_pc' = [serve_pc EXCEPT ![m] = "close"]
          ELSE serve_pc' = [serve_pc EXCEPT ![m] = "raised"]
    /\ UNCHANGED <<config, active_components, stop_event, ready_event, redis_open,
                   started_components, messages, components, calls, shutdown_idx>>

CloseOutcomes == {"ok", "raises"}
SignalOutcomes == {"ok", "raises"}
\* err.message exists on Python 2 and is an AttributeError on Python 3.
ExceptOutcomes == {"printed", "attribute_error"}

\* except Exception as err (line 197): the clause matches instances of
\* Exception; any other exception leaves shutdown() and serve().
ShutdownFailed(m, exception) ==
    serve_pc' = [serve_pc EXCEPT ![m] =
                    IF exception = "Exception" THEN "except" ELSE "raised"]

\* Line 193: self.redis.close().
ShutdownClose(m) ==
    /\ serve_pc[m] = "close"
    /\ \E outcome \in CloseOutcomes :
          IF outcome = "ok"
          THEN /\ redis_open' = [redis_open EXCEPT ![m] = FALSE]
               /\ serve_pc' = [serve_pc EXCEPT ![m] = "signal"]
               /\ shutdown_idx' = [shutdown_idx EXCEPT ![m] = 1]
          ELSE /\ \E exception \in ExceptionClasses : ShutdownFailed(m, exception)
               /\ UNCHANGED <<redis_open, shutdown_idx>>
    /\ UNCHANGED <<config, active_components, stop_event, ready_event,
                   started_components, messages, components, calls>>

\* Lines 194-196 and 93: one iteration of the for loop over the list itself
\* (an entry appended meanwhile is still reached), or its end.
ShutdownSignal(m) ==
    /\ serve_pc[m] = "signal"
    /\ IF shutdown_idx[m] <= Len(active_components[m])
       THEN \E outcome \in SignalOutcomes :
               IF outcome = "ok"
               THEN /\ components' = [components EXCEPT
                          ![active_components[m][shutdown_idx[m]]].stop_event = TRUE]
                    /\ shutdown_idx' = [shutdown_idx EXCEPT ![m] = @ + 1]
                    /\ UNCHANGED serve_pc
               ELSE /\ \E exception \in ExceptionClasses :
                          ShutdownFailed(m, exception)
                    /\ UNCHANGED <<components, shutdown_idx>>
       ELSE /\ serve_pc' = [serve_pc EXCEPT ![m] = "returned"]
            /\ UNCHANGED <<components, shutdown_idx>>
    /\ UNCHANGED <<config, active_components, stop_event, ready_event, redis_open,
                   started_components, messages, calls>>

\* Lines 197-198 and 93: print('Graceful exit has failed: ...'.format(err.message)).
ShutdownExcept(m) ==
    /\ serve_pc[m] = "except"
    /\ \E outcome \in ExceptOutcomes :
          serve_pc' = [serve_pc EXCEPT ![m] =
                          IF outcome = "printed" THEN "returned" ELSE "raised"]
    /\ UNCHANGED <<config, active_components, stop_event, ready_event, redis_open,
                   started_components, messages, components, calls, shutdown_idx>>

\* ------------------------------------------------------------ specifications
Main(m) ==
    \/ InitReady(m)
    \/ ServeEnter(m)
    \/ ServeLoop(m)
    \/ ShutdownClose(m)
    \/ ShutdownSignal(m)
    \/ ShutdownExcept(m)

\* The steps of the handler calls.
HandlerStep ==
    \/ \E i \in DOMAIN calls : HandleStop(i)
    \/ \E i \in DOMAIN calls : HandleStart(i)
    \/ \E i \in DOMAIN calls : HandleIgnore(i)
    \/ \E i \in DOMAIN calls : Launch(i)
    \/ \E i \in DOMAIN calls : WaitReady(i)
    \/ \E i \in DOMAIN calls : SensorStore(i)
    \/ \E i \in DOMAIN calls : SendReply(i)

\* The steps of the handler calls and of the main threads.
Step ==
    \/ HandlerStep
    \/ \E m \in DOMAIN manager_class : InitReady(m)
    \/ \E m \in DOMAIN manager_class : ServeEnter(m)
    \/ \E m \in DOMAIN manager_class : ServeLoop(m)
    \/ \E m \in DOMAIN manager_class : ShutdownClose(m)
    \/ \E m \in DOMAIN manager_class : ShutdownSignal(m)
    \/ \E m \in DOMAIN manager_class : ShutdownExcept(m)

\* The bus serializes the calls of each manager's handler.
Next ==
    \/ \E m \in DOMAIN manager_class, request \in Requests : DeliverSerial(m, request)
    \/ Step

Spec == Init /\ [][Next]_vars

\* The bus may call a handler while earlier calls are still running, on up to
\* MaxConcurrent threads.
NextConcurrent ==
    \/ \E m \in DOMAIN manager_class, request \in Requests :
          DeliverConcurrent(m, request)
    \/ Step

ConcurrentSpec == Init /\ [][NextConcurrent]_vars

\* Two sensor managers of one process, each behind a serializing bus.
TwoManagerSpec == InitTwoSensorManagers /\ [][Next]_vars

\* No step is an interrupt of the wait of line 89.
NoKeyboardInterrupt ==
    \A m \in DOMAIN serve_pc :
        ~(serve_pc[m] = "loop" /\ serve_pc'[m] = "raised")

\* The runs in which the process is not interrupted and the main thread of the
\* manager is scheduled: serve() polls the stop signal every 0.1 s and
\* shutdown() runs to its end.
NextUninterrupted ==
    \/ \E m \in DOMAIN manager_class, request \in Requests : DeliverSerial(m, request)
    \/ HandlerStep
    \/ \E m \in DOMAIN manager_class : InitReady(m)
    \/ \E m \in DOMAIN manager_class : ServeEnter(m)
    \/ \E m \in DOMAIN manager_class : ServeLoop(m) /\ NoKeyboardInterrupt
    \/ \E m \in DOMAIN manager_class : ShutdownClose(m)
    \/ \E m \in DOMAIN manager_class : ShutdownSignal(m)
    \/ \E m \in DOMAIN manager_class : ShutdownExcept(m)

FairSpec ==
    /\ Init
    /\ [][NextUninterrupted]_vars
    /\ \A m \in Process : WF_vars(Main(m) /\ NoKeyboardInterrupt)

\* ------------------------------------------------------------ properties
IsStart(c) == c.request.type = "SICStartComponentRequest"
IsStop(c) == c.request.type = "SICStopRequest"
HasReply(c) == c.pc \in {"returned", "replied"}
Registered(c) == c.request.component_name \in component_classes[c.manager]
SensorStartCall(c) == IsStart(c) /\ IsSensorManager(c.manager) /\ Registered(c)

\* The components of class `name` whose thread manager `m` has started.
Launched(m, name) ==
    {id \in DOMAIN components :
        /\ components[id].manager = m
        /\ components[id].name = name
        /\ components[id].thread_started}

\* C1: every call of _handle_request that has ended has produced exactly one
\* reply object, whatever the request and the manager state.
C1_ExactlyOneReply ==
    \A i \in DOMAIN calls :
        Ended(calls[i]) =>
            Cardinality({id \in DOMAIN messages :
                            HasReply(calls[i]) /\ calls[i].reply = id}) = 1

C2_AtMostOneLaunched ==
    \A m \in DOMAIN manager_class : \A name \in ComponentNames :
        IsSensorManager(m) => Cardinality(Launched(m, name)) <= 1

C2_CachedStartLaunchesNothing ==
    \A i \in DOMAIN calls :
        ( /\ calls[i].pc = "handle"
          /\ SensorStartCall(calls[i])
          /\ calls[i].request.component_name \in DOMAIN started_components
          /\ calls'[i].pc # "handle" )
        => /\ calls'[i].pc = "returned"
           /\ calls'[i].reused
           /\ components' = components
           /\ active_components' = active_components
           /\ started_components' = started_components

\* C2: with the calls of a sensor manager handled one at a time, at most one
\* component of a class is ever launched by the manager, and a start request
\* for a class that is in the cache returns without creating a component,
\* touching the active list or changing the cache entry.
C2_SingletonLaunchedOnce ==
    []C2_AtMostOneLaunched /\ [][C2_CachedStartLaunchesNothing]_vars

\* C3: with concurrent delivery, no two start calls for the same class on one
\* sensor manager have both launched a component.
C3_NoDoubleLaunch ==
    \A i, j \in DOMAIN calls :
        ( /\ i # j
          /\ SensorStartCall(calls[i]) /\ SensorStartCall(calls[j])
          /\ calls[i].manager = calls[j].manager
          /\ calls[i].request.component_name = calls[j].request.component_name )
        => ~( /\ calls[i].component \in DOMAIN components
              /\ calls[j].component \in DOMAIN components )

\* C4: two sequential start requests for one class on a sensor manager get
\* replies of the same type with the same output_channel and
\* component_is_singleton = True; the two reply objects differ from each
\* other and from the cached object, each carries only the request id stamped
\* on it, and the cached object carries none.
C4_DistinctEqualReplies ==
    \A i, j \in DOMAIN calls :
        ( /\ i < j
          /\ SensorStartCall(calls[i]) /\ SensorStartCall(calls[j])
          /\ calls[i].manager = calls[j].manager
          /\ calls[i].request.component_name = calls[j].request.component_name
          /\ HasReply(calls[i]) /\ HasReply(calls[j]) )
        => LET ri == messages[calls[i].reply]
               rj == messages[calls[j].reply]
               cached == started_components[calls[i].request.component_name]
           IN /\ ri.type = rj.type
              /\ ri.output_channel = rj.output_channel
              /\ ri.component_is_singleton /\ rj.component_is_singleton
              /\ calls[i].reply # calls[j].reply
              /\ calls[i].reply # cached /\ calls[j].reply # cached
              /\ ri.request_id = (IF calls[i].pc = "replied" THEN i ELSE 0)
              /\ rj.request_id = (IF calls[j].pc = "replied" THEN j ELSE 0)
              /\ messages[cached].request_id = 0

C4_Witness ==
    \E i, j \in DOMAIN calls :
        /\ i < j
        /\ SensorStartCall(calls[i]) /\ SensorStartCall(calls[j])
        /\ calls[i].request.component_name = calls[j].request.component_name
        /\ calls[i].pc = "replied" /\ calls[j].pc = "replied"
        /\ messages[calls[i].reply].type = "SICStartedComponentInformation"
        /\ messages[calls[j].reply].type = "SICStartedComponentInformation"

C5_IgnoreStep ==
    \A i \in DOMAIN calls :
        ( /\ calls[i].pc = "handle"
          /\ IsStart(calls[i])
          /\ ~Registered(calls[i])
          /\ calls'[i].pc # "handle" )
        => /\ calls'[i].pc = "returned"
           /\ messages'[calls'[i].reply].type = "SICIgnoreRequestMessage"
           /\ component_classes' = component_classes
           /\ active_components' = active_components
           /\ started_components' = started_components
           /\ components' = components

\* C5: handling a start request for a name that is not in the registry
\* returns the ignore message and leaves the registry, the active list, the
\* singleton cache and the components as they were.
C5_UnregisteredIgnored == [][C5_IgnoreStep]_vars

C5_Witness ==
    \E i \in DOMAIN calls :
        /\ IsStart(calls[i]) /\ ~Registered(calls[i])
        /\ calls[i].pc = "replied"
        /\ messages[calls[i].reply].type = "SICIgnoreRequestMessage"
        /\ Len(active_components[calls[i].manager]) > 0

\* C6: a start call whose component constructor raised returns a
\* SICNotStartedMessage that wraps the exception, and the active list at its
\* return is the list at its entry.
C6_ConstructorFailure ==
    \A i \in DOMAIN calls :
        (calls[i].cause = "constructor_error" /\ Ended(calls[i])) =>
            /\ HasReply(calls[i])
            /\ messages[calls[i].reply].type = "SICNotStartedMessage"
            /\ messages[calls[i].reply].message = "constructor_error"
            /\ calls[i].after = calls[i].before
            /\ calls[i].component \notin DOMAIN components

\* C7: once a stop request has been handled while the manager is in serve(),
\* serve() eventually returns.
C7_ServeEventuallyReturns ==
    \A m \in Process :
        (stop_event[m] /\ serve_pc[m] = "loop") ~> (serve_pc[m] = "returned")

\* C8: when serve() has returned after a stop request, every component that
\* was in the active list when the stop request was handled has its stop
\* signal set.
C8_StoppedComponentsSignalled ==
    \A i \in DOMAIN calls :
        ( /\ IsStop(calls[i])
          /\ HasReply(calls[i])
          /\ serve_pc[calls[i].manager] = "returned" )
        => \A k \in 1..Len(calls[i].after) :
              components[calls[i].after[k]].stop_event

\* C9: the first start request for a registered class on a sensor manager
\* launches a component of that manager, whatever another sensor manager of
\* the process has started.
C9_CachePerManager ==
    \A i \in DOMAIN calls :
        ( /\ SensorStartCall(calls[i])
          /\ HasReply(calls[i])
          /\ \A j \in 1..(i - 1) :
                ~( /\ IsStart(calls[j])
                   /\ calls[j].manager = calls[i].manager
                   /\ calls[j].request.component_name =
                          calls[i].request.component_name ) )
        => ~calls[i].reused

\* C10: no exception leaves _handle_request.
C10_NoEscapingFailure ==
    \A i \in DOMAIN calls : calls[i].pc # "raised"

\* The start path of call i is past the wait of line 170 without an
\* exception, and the component has not set its ready signal: the wait timed
\* out.
TimedOut(i) ==
    /\ calls[i].component \in DOMAIN components
    /\ calls[i].pc \notin {"handle", "launch", "wait"}
    /\ calls[i].cause = NoCause
    /\ ~components[calls[i].component].ready_event

\* shutdown() of manager m has reached the for loop of line 194: redis.close()
\* has returned, which sets the position of the loop to its first entry.
Signalling(m) == shutdown_idx[m] >= 1

\* C11: a start whose component did not become ready within the timeout has
\* appended the component to the active list, start_component has built the
\* success reply with the output channel, the component's thread is still the
\* launched one, and its stop signal is set by nothing but shutdown().
C11_TimeoutStillRegistered ==
    \A i \in DOMAIN calls :
        TimedOut(i) =>
            LET c == calls[i] IN
            /\ \E k \in DOMAIN active_components[c.manager] :
                  active_components[c.manager][k] = c.component
            /\ ReplyId(i) \in DOMAIN messages
            /\ messages[ReplyId(i)].type = "SICStartedComponentInformation"
            /\ messages[ReplyId(i)].output_channel =
                  components[c.component].output_channel
            /\ components[c.component].thread_started
            /\ components[c.component].stop_event => Signalling(c.manager)

C11_Witness ==
    \E i \in DOMAIN calls :
        /\ TimedOut(i)
        /\ calls[i].pc = "replied"
        /\ messages[calls[i].reply].type = "SICStartedComponentInformation"
        /\ ~components[calls[i].component].stop_event

\* The lifecycle state of manager m: __init__ ends with ready_event.set(),
\* serve() runs the loop, then shutdown(), then it is over (it returned, or
\* an exception left it).
Phase(m) ==
    CASE ~ready_event[m] -> "Initializing"
      [] serve_pc[m] = "constructed" -> "Ready"
      [] serve_pc[m] = "loop" -> "Serving"
      [] serve_pc[m] \in {"close", "signal", "except"} -> "ShuttingDown"
      [] OTHER -> "Stopped"

PhaseRank(phase) ==
    CASE phase = "Initializing" -> 0
      [] phase = "Ready" -> 1
      [] phase = "Serving" -> 2
      [] phase = "ShuttingDown" -> 3
      [] OTHER -> 4

C12_ForwardStep ==
    \A m \in DOMAIN manager_class :
        /\ PhaseRank(Phase(m)') >= PhaseRank(Phase(m))
        /\ PhaseRank(Phase(m)') <= PhaseRank(Phase(m)) + 1
        /\ (Phase(m) = "Serving" /\ Phase(m)' # "Serving") => stop_event[m]
        /\ Phase(m) = "Stopped" => Phase(m)' = "Stopped"

C12_ShutdownOnlyAfterStop ==
    \A m \in DOMAIN manager_class :
        Phase(m) \in {"ShuttingDown", "Stopped"} => stop_event[m]

\* C12: the lifecycle state of a manager moves only forward, one state at a
\* time; Serving is left only with the stop signal set, shutdown() runs only
\* with the stop signal set, and Stopped is never left.
C12_LifecycleForward ==
    []C12_ShutdownOnlyAfterStop /\ [][C12_ForwardStep]_vars

C13_StopStep ==
    \A i \in DOMAIN calls :
        ( /\ calls[i].pc = "handle"
          /\ IsStop(calls[i])
          /\ calls'[i].pc # "handle" )
        => /\ calls'[i].pc = "returned"
           /\ stop_event'[calls[i].manager]
           /\ messages'[calls'[i].reply].type = "SICSuccessMessage"
           /\ active_components' = active_components
           /\ started_components' = started_components
           /\ components' = components
           /\ serve_pc' = serve_pc
           /\ redis_open' = redis_open

\* C13: handling a stop request sets the manager's stop signal and returns the
\* success message; the active list, the singleton cache, every component's
\* stop signal and the main thread are left as they were.
C13_StopOnlySetsSignal == [][C13_StopStep]_vars

C13_Witness ==
    \E i \in DOMAIN calls :
        /\ IsStop(calls[i])
        /\ calls[i].pc = "replied"
        /\ stop_event[calls[i].manager]
        /\ serve_pc[calls[i].manager] = "loop"
        /\ \E k \in DOMAIN calls[i].after :
              ~components[calls[i].after[k]].stop_event

\* Call i is a start call on a plain manager that got the success reply.
PlainStarted(i) ==
    /\ IsStart(calls[i])
    /\ ~IsSensorManager(calls[i].manager)
    /\ HasReply(calls[i])
    /\ messages[calls[i].reply].type = "SICStartedComponentInformation"

\* C14: on a plain manager every successful start of a class is answered with
\* the channel computed from the class and the address of the device alone
\* and with component_is_singleton = False, so two successful starts of one
\* class get the same output_channel.
C14_SameChannelNotSingleton ==
    \A i, j \in DOMAIN calls :
        ( /\ PlainStarted(i) /\ PlainStarted(j)
          /\ calls[i].manager = calls[j].manager
          /\ calls[i].request.component_name = calls[j].request.component_name )
        => LET ri == messages[calls[i].reply]
               rj == messages[calls[j].reply]
           IN /\ ri.output_channel = rj.output_channel
              /\ ri.output_channel =
                    get_output_channel(calls[i].request.component_name, ip)
              /\ ~ri.component_is_singleton
              /\ ~rj.component_is_singleton

C14_Witness ==
    \E i, j \in DOMAIN calls :
        /\ i < j
        /\ PlainStarted(i) /\ PlainStarted(j)
        /\ calls[i].request.component_name = calls[j].request.component_name
        /\ calls[i].pc = "replied" /\ calls[j].pc = "replied"
        /\ calls[i].component # calls[j].component

\* A step of the handler call j of a sensor manager that starts a class keeps
\* the cache entry of every other class: the same object with the same type,
\* output_channel and component_is_singleton, and the launched instances of
\* that class as they were.
C15_StartStep ==
    \A j \in DOMAIN calls :
        ( /\ calls'[j] # calls[j]
          /\ IsStart(calls[j])
          /\ IsSensorManager(calls[j].manager) )
        => \A n \in DOMAIN started_components :
              n # calls[j].request.component_name =>
                 /\ n \in DOMAIN started_components'
                 /\ started_components'[n] = started_components[n]
                 /\ LET old == messages[started_components[n]]
                        new == messages'[started_components[n]]
                    IN /\ new.type = old.type
                       /\ new.output_channel = old.output_channel
                       /\ new.component_is_singleton = old.component_is_singleton
                 /\ \A k \in Launched(calls[j].manager, n) :
                       components'[k] = components[k]

\* A start answered from the cache returns the values of the cache entry.
C15_ReusedReturnsEntry ==
    \A i \in DOMAIN calls :
        (calls[i].reused /\ HasReply(calls[i])) =>
            LET name == calls[i].request.component_name IN
            /\ name \in DOMAIN started_components
            /\ LET entry == messages[started_components[name]]
                   reply == messages[calls[i].reply]
               IN /\ reply.type = entry.type
                  /\ reply.output_channel = entry.output_channel
                  /\ reply.component_is_singleton = entry.component_is_singleton

\* C15: on a sensor manager the start of a class B leaves the cache entry and
\* the running instance of an earlier started class A unchanged (same
\* output_channel and component_is_singleton before and after), and a later
\* start request for A still returns them.
C15_OtherEntryUndisturbed == []C15_ReusedReturnsEntry /\ [][C15_StartStep]_vars

C15_Witness ==
    \E a, b, r \in DOMAIN calls :
        /\ a < b /\ b < r
        /\ SensorStartCall(calls[a]) /\ SensorStartCall(calls[b])
        /\ calls[a].request.component_name # calls[b].request.component_name
        /\ calls[a].pc = "replied" /\ calls[b].pc = "replied"
        /\ messages[calls[a].reply].type = "SICStartedComponentInformation"
        /\ messages[calls[b].reply].type = "SICStartedComponentInformation"
        /\ messages[calls[a].reply].output_channel
              # messages[calls[b].reply].output_channel
        /\ calls[r].request.component_name = calls[a].request.component_name
        /\ calls[r].reused /\ calls[r].pc = "replied"
        /\ messages[calls[r].reply].output_channel
              = messages[calls[a].reply].output_channel
        /\ messages[calls[r].reply].component_is_singleton

\* C16: the cache of a sensor manager holds SICStartedComponentInformation
\* replies only: a start that ended in SICNotStartedMessage adds no entry.
C16_OnlySuccessCached ==
    \A n \in DOMAIN started_components :
        messages[started_components[n]].type = "SICStartedComponentInformation"

\* The calls of manager m whose base start_component has returned
\* SICStartedComponentInformation (the object of line 182).
BaseStarted(m) ==
    {i \in DOMAIN calls :
        /\ calls[i].manager = m
        /\ IsStart(calls[i])
        /\ ReplyId(i) \in DOMAIN messages
        /\ messages[ReplyId(i)].type = "SICStartedComponentInformation"}

C17_LengthIsStartedCount ==
    \A m \in DOMAIN active_components :
        Len(active_components[m]) = Cardinality(BaseStarted(m))

C17_PrefixStep ==
    \A m \in DOMAIN active_components :
        /\ Len(active_components[m]) <= Len(active_components'[m])
        /\ SubSeq(active_components'[m], 1, Len(active_components[m]))
              = active_components[m]

\* C17: the active list only grows: no step (start, stop request, ignored
\* request, shutdown) removes or reorders an entry, and with requests handled
\* one after the other its length is the number of base start_component calls
\* that returned SICStartedComponentInformation.
C17_ActiveListOnlyGrows == []C17_LengthIsStartedCount /\ [][C17_PrefixStep]_vars

C17_Witness ==
    \E m \in DOMAIN active_components :
        /\ Len(active_components[m]) = 2
        /\ Cardinality(BaseStarted(m)) = 2
        /\ serve_pc[m] = "returned"
        /\ \E i \in DOMAIN calls : IsStop(calls[i]) /\ calls[i].pc = "replied"

\* The component `id` is an entry of the active list of manager m.
InActiveList(m, id) ==
    \E k \in DOMAIN active_components[m] : active_components[m][k] = id

\* C18: on a plain manager, with start requests handled concurrently, no
\* update is lost: the instance of every successful start is in the active
\* list, the list has one entry for each of them, and each requester gets its
\* own SICStartedComponentInformation object.
C18_NoLostUpdate ==
    /\ \A i \in DOMAIN calls :
          PlainStarted(i) =>
             /\ InActiveList(calls[i].manager, calls[i].component)
             /\ calls[i].reply = ReplyId(i)
             /\ calls[i].pc = "replied" => messages[calls[i].reply].request_id = i
    /\ \A i, j \in DOMAIN calls :
          (i # j /\ PlainStarted(i) /\ PlainStarted(j)) =>
             /\ calls[i].component # calls[j].component
             /\ calls[i].reply # calls[j].reply
    /\ \A m \in DOMAIN active_components :
          ~IsSensorManager(m) =>
             Len(active_components[m]) = Cardinality(BaseStarted(m))

\* Two successful starts that overlapped: the later call was delivered before
\* the earlier one had registered its component.
C18_Witness ==
    \E i, j \in DOMAIN calls :
        /\ i < j
        /\ PlainStarted(i) /\ PlainStarted(j)
        /\ calls[i].pc = "replied" /\ calls[j].pc = "replied"
        /\ calls[j].before = <<>>
        /\ InActiveList(calls[i].manager, calls[i].component)
        /\ InActiveList(calls[j].manager, calls[j].component)

\* C19: once serve() has returned and every call of the handler is over, every
\* component in the active list has its stop signal set, also when a start
\* was in progress or handled after the manager's stop signal was set.
C19_NoRegisteredUnsignalled ==
    \A m \in DOMAIN serve_pc :
        ( /\ serve_pc[m] = "returned"
          /\ \A i \in DOMAIN calls : calls[i].manager = m => Ended(calls[i]) )
        => \A k \in DOMAIN active_components[m] :
              components[active_components[m][k]].stop_event

\* C20: when a start request is answered, the component whose thread the call
\* has started is in the active list of its manager; a SICNotStartedMessage
\* leaves no started thread outside the list.
C20_LaunchedIsRegistered ==
    \A i \in DOMAIN calls :
        ( /\ HasReply(calls[i])
          /\ ComponentId(i) \in DOMAIN components
          /\ components[ComponentId(i)].thread_started )
        => InActiveList(calls[i].manager, ComponentId(i))

====
